---- MODULE Spec2Model ----
(***************************************************************************)
(* A model of wifi/scheme.py: the Scheme grammar (Scheme.__str__ and       *)
(* extract_schemes), the Scheme store (all, where, find, save, delete)     *)
(* over the interfaces file, activation (activate, deactivate, current),   *)
(* configuration(cell, passkey), and two processes using the store at once.*)
(*                                                                         *)
(* Text is modelled as Python sees it: a sequence of one-character         *)
(* strings.  The file is the pair (exists, content).  An exception is an   *)
(* outcome string ("ValueError", "AssertionError", "IOError", ...).        *)
(***************************************************************************)
EXTENDS Integers, Sequences, FiniteSets, TLC

VARIABLES
    exists,     \* whether the interfaces file exists
    content,    \* the text of the interfaces file (<<>> when it is missing)
    initial,    \* how the run started: the blocks the first file was made of and its text
    last,       \* the last call: its name, arguments, outcome, result, and the file before it;
                \* for a call made of several steps, also its position and what it has done
    nops        \* the number of calls made so far

vars == <<exists, content, initial, last, nops>>

----------------------------------------------------------------------------
(* Bounds of the model. *)

MaxBlocks == 2
MaxOps == 2
MaxOpts == 2

----------------------------------------------------------------------------
(* Characters and the Python string methods the code uses. *)

NL == "\n"
SP == " "
TAB == "\t"

Digit == {"0", "1", "2", "3", "4", "5", "6", "7", "8", "9"}
Letter == {"a", "b", "c", "d", "e", "f", "g", "h", "i", "j", "k", "l", "m",
           "n", "o", "p", "q", "r", "s", "t", "u", "v", "w", "x", "y", "z"}

\* \s of the re module, over the characters of the model
IsSpace(c) == c \in {SP, TAB, NL}

\* \w of the re module
IsWord(c) == c \in Letter \cup Digit \cup {"_"}

\* \d of the re module
IsDigit(c) == c \in Digit

\* str.startswith
startswith(s, p) == Len(s) >= Len(p) /\ SubSeq(s, 1, Len(p)) = p

\* the text from position i on
From(s, i) == SubSeq(s, i, Len(s))

\* the first position >= i of s holding character c, or 0
RECURSIVE IndexOf(_, _, _)
IndexOf(s, c, i) ==
    IF i > Len(s) THEN 0
    ELSE IF s[i] = c THEN i
    ELSE IndexOf(s, c, i + 1)

\* the first position >= i of s that holds no whitespace (Len(s)+1 when none)
RECURSIVE SkipSpace(_, _)
SkipSpace(s, i) ==
    IF i > Len(s) THEN i
    ELSE IF IsSpace(s[i]) THEN SkipSpace(s, i + 1)
    ELSE i

\* the last position <= i of s that holds no whitespace (0 when none)
RECURSIVE SkipSpaceBack(_, _)
SkipSpaceBack(s, i) ==
    IF i < 1 THEN 0
    ELSE IF IsSpace(s[i]) THEN SkipSpaceBack(s, i - 1)
    ELSE i

\* the first position >= i of s that holds no word character
RECURSIVE SkipWord(_, _)
SkipWord(s, i) ==
    IF i > Len(s) THEN i
    ELSE IF IsWord(s[i]) THEN SkipWord(s, i + 1)
    ELSE i

\* str.strip()
strip(s) == SubSeq(s, SkipSpace(s, 1), SkipSpaceBack(s, Len(s)))

\* str.splitlines(): the lines without their terminators; a final newline
\* opens no further line
RECURSIVE splitlines(_)
splitlines(t) ==
    IF t = <<>> THEN <<>>
    ELSE LET i == IndexOf(t, NL, 1) IN
         IF i = 0 THEN <<t>>
         ELSE <<SubSeq(t, 1, i - 1)>> \o splitlines(From(t, i + 1))

\* iterating an open text file: the lines with their terminators
RECURSIVE readlines(_)
readlines(t) ==
    IF t = <<>> THEN <<>>
    ELSE LET i == IndexOf(t, NL, 1) IN
         IF i = 0 THEN <<t>>
         ELSE <<SubSeq(t, 1, i)>> \o readlines(From(t, i + 1))

\* re.sub(r'\s{2,}', ' ', s): every run of two or more whitespace characters
\* becomes one space; a single whitespace character stays as it is
RECURSIVE collapse(_)
collapse(s) ==
    IF s = <<>> THEN <<>>
    ELSE IF IsSpace(s[1]) /\ Len(s) >= 2 /\ IsSpace(s[2])
         THEN <<SP>> \o collapse(From(s, SkipSpace(s, 1)))
         ELSE <<s[1]>> \o collapse(Tail(s))

\* str.split(' ', 1): one part when s holds no space, else the text before
\* the first space and the text after it
split1(s) ==
    LET i == IndexOf(s, SP, 1) IN
    IF i = 0 THEN <<s>>
    ELSE <<SubSeq(s, 1, i - 1), From(s, i + 1)>>

----------------------------------------------------------------------------
(* Schemes.  options is a dict: a sequence of <<key, value>> pairs with    *)
(* distinct keys, in insertion order.                                      *)

Scheme(interface, name, options) ==
    [interface |-> interface, name |-> name, options |-> options]

\* options[key] = value
DictSet(d, k, v) ==
    IF \E i \in 1..Len(d) : d[i][1] = k
    THEN [i \in 1..Len(d) |-> IF d[i][1] = k THEN <<k, v>> ELSE d[i]]
    ELSE Append(d, <<k, v>>)

T_iface == <<"i", "f", "a", "c", "e">>
T_wlan == <<"w", "l", "a", "n">>
T_inet_dhcp == <<" ", "i", "n", "e", "t", " ", "d", "h", "c", "p">>
T_indent == <<" ", " ", " ", " ">>

\* "iface {interface}-{name} inet dhcp"
HeaderLine(interface, name) ==
    T_iface \o <<SP>> \o interface \o <<"-">> \o name \o T_inet_dhcp

\* "\n    {k} {v}" for each item of the options
RECURSIVE OptionLines(_)
OptionLines(d) ==
    IF d = <<>> THEN <<>>
    ELSE <<NL>> \o T_indent \o d[1][1] \o <<SP>> \o d[1][2] \o OptionLines(Tail(d))

\* Scheme.__str__
str(s) == HeaderLine(s.interface, s.name) \o OptionLines(s.options) \o <<NL>>

\* scheme_re.match(line): iface\s+(?P<interface>wlan\d?)(?:-(?P<name>\w+))?
\* anchored at the start of the line only.  name is <<>> when the group did
\* not take part in the match.
scheme_re(line) ==
    LET a == Len(T_iface) + 1          \* where \s+ starts
        b == SkipSpace(line, a)        \* where wlan starts
        c == b + Len(T_wlan)           \* where \d? starts
        d == IF c <= Len(line) /\ IsDigit(line[c]) THEN c + 1 ELSE c
        e == SkipWord(line, d + 1)     \* the end of \w+ after the hyphen
        named == d <= Len(line) /\ line[d] = "-" /\ e > d + 1
    IN  IF startswith(line, T_iface) /\ b > a /\ startswith(From(line, b), T_wlan)
        THEN [match |-> TRUE,
              interface |-> SubSeq(line, b, d - 1),
              name |-> IF named THEN SubSeq(line, d + 1, e - 1) ELSE <<>>]
        ELSE [match |-> FALSE, interface |-> <<>>, name |-> <<>>]

\* A variant of the inner loop that takes every line starting with
\* whitespace for an option line.
RECURSIVE ReadOptionsAnyIndent(_, _)
ReadOptionsAnyIndent(lines, options) ==
    IF lines # <<>> /\ lines[1] # <<>> /\ IsSpace(lines[1][1])
    THEN LET kv == split1(collapse(strip(lines[1]))) IN
         IF Len(kv) # 2
         THEN [raised |-> TRUE, options |-> options, rest |-> Tail(lines)]
         ELSE ReadOptionsAnyIndent(Tail(lines), DictSet(options, kv[1], kv[2]))
    ELSE [raised |-> FALSE, options |-> options, rest |-> lines]
\* the inner loop of extract_schemes: the option lines at the head of lines.
\* raised: a line that is one word after strip and collapse cannot be
\* unpacked into key and value (ValueError).
RECURSIVE ReadOptions(_, _)
ReadOptions(lines, options) ==
    IF lines # <<>> /\ startswith(lines[1], <<SP>>)
    THEN LET kv == split1(collapse(strip(lines[1]))) IN
         IF Len(kv) # 2
         THEN [raised |-> TRUE, options |-> options, rest |-> Tail(lines)]
         ELSE ReadOptions(Tail(lines), DictSet(options, kv[1], kv[2]))
    ELSE [raised |-> FALSE, options |-> options, rest |-> lines]

\* A variant of the outer loop without the test "if not scheme or not
\* interface: continue": a header with no -name suffix yields a scheme too.
RECURSIVE ExtractLoopKeepsNameless(_, _)
ExtractLoopKeepsNameless(lines, yielded) ==
    IF lines = <<>> THEN [raised |-> FALSE, schemes |-> yielded]
    ELSE LET line == Head(lines)
             m == scheme_re(line)
         IN  IF startswith(line, <<"#">>) \/ line = <<>>
             THEN ExtractLoopKeepsNameless(Tail(lines), yielded)
             ELSE IF ~m.match
             THEN ExtractLoopKeepsNameless(Tail(lines), yielded)
             ELSE LET o == ReadOptions(Tail(lines), <<>>) IN
                  IF o.raised
                  THEN [raised |-> TRUE, schemes |-> yielded]
                  ELSE ExtractLoopKeepsNameless(o.rest,
                           Append(yielded, Scheme(m.interface, m.name, o.options)))

\* the outer loop of extract_schemes, over the lines still to read, with the
\* schemes yielded so far
RECURSIVE ExtractLoop(_, _)
ExtractLoop(lines, yielded) ==
    IF lines = <<>> THEN [raised |-> FALSE, schemes |-> yielded]
    ELSE LET line == Head(lines)
             m == scheme_re(line)
         IN  IF startswith(line, <<"#">>) \/ line = <<>>
             THEN ExtractLoop(Tail(lines), yielded)
             ELSE IF ~m.match \/ m.name = <<>> \/ m.interface = <<>>
             THEN ExtractLoop(Tail(lines), yielded)
             ELSE LET o == ReadOptions(Tail(lines), <<>>) IN
                  IF o.raised
                  THEN [raised |-> TRUE, schemes |-> yielded]
                  ELSE ExtractLoop(o.rest,
                           Append(yielded, Scheme(m.interface, m.name, o.options)))

\* extract_schemes, read to its end: the schemes yielded, and whether the
\* generator raised ValueError
extract_schemes(interfaces) == ExtractLoop(splitlines(interfaces), <<>>)

----------------------------------------------------------------------------
(* The store: Scheme.all, where, find, save and delete on the file.        *)

NoScheme == Scheme(<<>>, <<>>, <<>>)

\* wifi.utils.ensure_file_exists: an empty file is created when none exists
ensure_file_exists == exists' = TRUE

\* Scheme.all on a file holding text: the parser's outcome
all(text) == extract_schemes(text)

\* A variant of find whose filter compares the interface only.
find_by_interface(text, interface, name) ==
    LET match(s) == s.interface = interface
        r == all(text)
        w == [raised |-> r.raised,
              list |-> IF r.raised THEN <<>> ELSE SelectSeq(r.schemes, match)]
    IN  IF w.raised
        THEN [outcome |-> "ValueError", found |-> FALSE, scheme |-> NoScheme]
        ELSE IF w.list = <<>>
        THEN [outcome |-> "ok", found |-> FALSE, scheme |-> NoScheme]
        ELSE [outcome |-> "ok", found |-> TRUE, scheme |-> w.list[1]]

\* Scheme.find: the first element of where(...), None on IndexError.
\* w is where(match), list(filter(fn, cls.all())): the list is built in
\* full, so a ValueError anywhere in the file reaches the caller.
find(text, interface, name) ==
    LET match(s) == s.interface = interface /\ s.name = name
        r == all(text)
        w == [raised |-> r.raised,
              list |-> IF r.raised THEN <<>> ELSE SelectSeq(r.schemes, match)]
    IN  IF w.raised
        THEN [outcome |-> "ValueError", found |-> FALSE, scheme |-> NoScheme]
        ELSE IF w.list = <<>>
        THEN [outcome |-> "ok", found |-> FALSE, scheme |-> NoScheme]
        ELSE [outcome |-> "ok", found |-> TRUE, scheme |-> w.list[1]]

\* A variant of the loop of delete that does not copy blank lines.
RECURSIVE DeleteLoopDropsBlank(_, _, _, _)
DeleteLoopDropsBlank(lines, iface, skip, kept) ==
    IF lines = <<>> THEN kept
    ELSE LET line == Head(lines)
             skip2 == IF strip(line) = <<>> THEN FALSE
                      ELSE IF strip(line) = iface THEN TRUE
                      ELSE skip
         IN  DeleteLoopDropsBlank(Tail(lines), iface, skip2,
                                  IF skip2 \/ strip(line) = <<>> THEN kept
                                  ELSE kept \o line)

\* the loop of Scheme.delete over the lines of the file, building content
RECURSIVE DeleteLoop(_, _, _, _)
DeleteLoop(lines, iface, skip, kept) ==
    IF lines = <<>> THEN kept
    ELSE LET line == Head(lines)
             skip2 == IF strip(line) = <<>> THEN FALSE
                      ELSE IF strip(line) = iface THEN TRUE
                      ELSE skip
         IN  DeleteLoop(Tail(lines), iface, skip2,
                        IF skip2 THEN kept ELSE kept \o line)

\* what a call leaves in last
Call(op, s, outcome, result) ==
    [op |-> op, scheme |-> s, outcome |-> outcome, result |-> result,
     before |-> content, existed |-> exists]

\* Scheme.all, read to its end by the caller
All ==
    /\ nops < MaxOps
    /\ ensure_file_exists
    /\ LET r == all(content) IN
       last' = Call("all", NoScheme, IF r.raised THEN "ValueError" ELSE "ok", r)
    /\ nops' = nops + 1
    /\ UNCHANGED <<content, initial>>

\* Scheme.find(interface, name)
Find(interface, name) ==
    /\ nops < MaxOps
    /\ ensure_file_exists
    /\ LET r == find(content, interface, name) IN
       last' = Call("find", Scheme(interface, name, <<>>), r.outcome, r)
    /\ nops' = nops + 1
    /\ UNCHANGED <<content, initial>>

\* A variant of save that appends before it asserts.
SaveWritesFirst(s) ==
    /\ nops < MaxOps
    /\ ensure_file_exists
    /\ LET f == find(content, s.interface, s.name)
           outcome == IF f.outcome # "ok" THEN f.outcome
                      ELSE IF f.found THEN "AssertionError"
                      ELSE "ok"
       IN  /\ last' = Call("save", s, outcome, f)
           /\ content' = content \o <<NL>> \o str(s)
    /\ nops' = nops + 1
    /\ UNCHANGED initial

\* Scheme.save: the assert on find, then "\n" and str(self) appended
Save(s) ==
    /\ nops < MaxOps
    /\ ensure_file_exists
    /\ LET f == find(content, s.interface, s.name)
           outcome == IF f.outcome # "ok" THEN f.outcome
                      ELSE IF f.found THEN "AssertionError"
                      ELSE "ok"
       IN  /\ last' = Call("save", s, outcome, f)
           /\ content' = IF outcome = "ok" THEN content \o <<NL>> \o str(s)
                         ELSE content
    /\ nops' = nops + 1
    /\ UNCHANGED initial

\* Scheme.delete: open(..., 'r') raises when the file is missing; else the
\* lines outside the skipped ranges replace the file's content
Delete(s) ==
    /\ nops < MaxOps
    /\ IF exists
       THEN /\ content' = DeleteLoop(readlines(content),
                                     HeaderLine(s.interface, s.name), FALSE, <<>>)
            /\ last' = Call("delete", s, "ok", <<>>)
       ELSE /\ content' = content
            /\ last' = Call("delete", s, "IOError", <<>>)
    /\ nops' = nops + 1
    /\ UNCHANGED <<exists, initial>>

----------------------------------------------------------------------------
(* The files a run starts from, made of blocks of lines, and the schemes   *)
(* the calls are made with.                                                *)

I_wlan0 == T_wlan \o <<"0">>
N_a == <<"a">>
N_b == <<"b">>
N_a_c == <<"a", "-", "c">>
K_k == <<"k">>
K_j == <<"j">>
V_v == <<"v">>
V_w == <<"w">>

SchemeA1 == Scheme(I_wlan0, N_a, <<<<K_k, V_v>>>>)
SchemeA2 == Scheme(I_wlan0, N_a, <<<<K_j, V_w>>>>)
SchemeB1 == Scheme(I_wlan0, N_b, <<<<K_j, V_w>>>>)

L_comment == <<"#", "c">>
L_eth0 == T_iface \o <<" ", "e", "t", "h", "0">> \o T_inet_dhcp
L_option == T_indent \o K_k \o <<SP>> \o V_v
L_wlan0 == T_iface \o <<SP>> \o I_wlan0 \o T_inet_dhcp
L_spaces == T_indent
L_padded == <<SP>> \o HeaderLine(I_wlan0, N_a)

Block(kind, lines, s) == [kind |-> kind, lines |-> lines, scheme |-> s]

SchemeBlock(s) == Block("scheme", splitlines(str(s)), s)

\* the blocks that the format describes: blank and comment lines, scheme
\* stanzas, and iface stanzas that are no scheme
PlainBlocks ==
    { Block("blank", <<<<>>>>, NoScheme),
      Block("comment", <<L_comment>>, NoScheme),
      SchemeBlock(SchemeA1), SchemeBlock(SchemeB1),
      Block("other", <<L_eth0, L_option>>, NoScheme),
      Block("other", <<L_wlan0>>, NoScheme) }

\* lines a hand-edited file may hold besides: a line of spaces only, and an
\* indented line that reads like a scheme header
OddBlocks ==
    { Block("spaces", <<L_spaces>>, NoScheme),
      Block("padded", <<L_padded>>, NoScheme) }

Blocks == PlainBlocks \cup OddBlocks

BlockSeqs == UNION {[1..n -> Blocks] : n \in 0..MaxBlocks}

\* the lines of a sequence of blocks
RECURSIVE LinesOf(_)
LinesOf(bs) == IF bs = <<>> THEN <<>> ELSE Head(bs).lines \o LinesOf(Tail(bs))

\* the lines joined by newlines, the last one terminated or not
RECURSIVE Join(_, _)
Join(lines, final) ==
    IF lines = <<>> THEN <<>>
    ELSE IF Len(lines) = 1 THEN Head(lines) \o (IF final THEN <<NL>> ELSE <<>>)
    ELSE Head(lines) \o <<NL>> \o Join(Tail(lines), final)

Render(bs, final) == Join(LinesOf(bs), final)

\* the schemes that save is called on: one with a plain name, one with a
\* hyphen in the name
SaveSchemes == { SchemeA2, Scheme(I_wlan0, N_a_c, <<>>) }

\* the scheme that delete is called on, and those that find is called for
DeleteSchemes == { SchemeA2 }
FindSchemes == { SchemeA2, SchemeB1 }

Init ==
    /\ \E bs \in BlockSeqs, final \in BOOLEAN :
          /\ initial = [blocks |-> bs, text |-> Render(bs, final)]
          /\ content = Render(bs, final)
          /\ exists \in (IF bs = <<>> THEN BOOLEAN ELSE {TRUE})
    /\ last = Call("none", NoScheme, "ok", <<>>)
    /\ nops = 0

Next ==
    \/ All
    \/ \E s \in FindSchemes : Find(s.interface, s.name)
    \/ \E s \in SaveSchemes : Save(s)
    \/ \E s \in DeleteSchemes : Delete(s)

Spec == Init /\ [][Next]_vars

----------------------------------------------------------------------------
(* The grammar alone: a scheme is serialised by Scheme.__str__ and the     *)
(* text is read back by extract_schemes.                                   *)

I_wlan == T_wlan
K_ssid == <<"w", "p", "a", "-", "s", "s", "i", "d">>
V_v_w == <<"v", " ", "w">>
V_v__w == <<"v", " ", " ", "w">>
V_empty == <<>>

GrammarKeys == {K_k, K_j, K_ssid}
GrammarValues == {V_v, V_v_w, V_v__w, V_empty}

\* the dicts of at most MaxOpts items: the keys of a dict are distinct
OptionDicts ==
    UNION { { d \in [1..n -> GrammarKeys \X GrammarValues] :
                \A i, j \in 1..n : i # j => d[i][1] # d[j][1] } : n \in 0..MaxOpts }

GrammarSchemes ==
    { Scheme(i, n, d) : i \in {I_wlan, I_wlan0}, n \in {N_a, N_b}, d \in OptionDicts }

InitGrammar ==
    /\ exists = FALSE
    /\ content = <<>>
    /\ initial = [blocks |-> <<>>, text |-> <<>>]
    /\ \E s \in GrammarSchemes : last = Call("new", s, "ok", <<>>)
    /\ nops = 0

\* str(scheme)
Serialize ==
    /\ last.op = "new"
    /\ last' = [last EXCEPT !.op = "str", !.result = str(last.scheme)]
    /\ UNCHANGED <<exists, content, initial, nops>>

\* list(extract_schemes(text)) of the text just produced
Extract ==
    /\ last.op = "str"
    /\ LET r == extract_schemes(last.result) IN
       last' = [last EXCEPT !.op = "extract_schemes",
                            !.outcome = IF r.raised THEN "ValueError" ELSE "ok",
                            !.result = r,
                            !.before = last.result]
    /\ UNCHANGED <<exists, content, initial, nops>>

NextGrammar == Serialize \/ Extract

SpecGrammar == InitGrammar /\ [][NextGrammar]_vars

----------------------------------------------------------------------------
(* Notions the properties are stated with. *)

SamePair(s, t) == s.interface = t.interface /\ s.name = t.name

\* no two schemes of the sequence share (interface, name)
Unique(ss) == \A i, j \in 1..Len(ss) : i # j => ~SamePair(ss[i], ss[j])

\* the schemes of ss other than those named like s
Others(ss, s) == SelectSeq(ss, LAMBDA t : ~SamePair(t, s))

\* some line of the text is exactly line
HasLine(text, line) ==
    \E i \in 1..Len(splitlines(text)) : splitlines(text)[i] = line

\* some line of the text is line once the whitespace around it is removed
HasStrippedLine(text, line) ==
    \E i \in 1..Len(splitlines(text)) : strip(splitlines(text)[i]) = line

\* a occurs in b, in order, not necessarily contiguously
RECURSIVE IsSubseq(_, _)
IsSubseq(a, b) ==
    IF a = <<>> THEN TRUE
    ELSE IF b = <<>> THEN FALSE
    ELSE IF Head(a) = Head(b) THEN IsSubseq(Tail(a), Tail(b))
    ELSE IsSubseq(a, Tail(b))

\* the first file is made of the blocks of the format only
Plain(bs) == \A i \in 1..Len(bs) : bs[i] \in PlainBlocks

\* the schemes whose stanzas the blocks hold, in file order
SchemesOf(bs) ==
    LET sb == SelectSeq(bs, LAMBDA b : b.kind = "scheme") IN
    [i \in 1..Len(sb) |-> sb[i].scheme]

\* the comment lines and the lines of the iface stanzas that are no scheme
UnrelatedLines(bs) ==
    LinesOf(SelectSeq(bs, LAMBDA b : b.kind \in {"comment", "other"}))

\* the call in last was made on the file the run started from
OnFirstFile == last.before = initial.text

----------------------------------------------------------------------------
(* C1. Round trip: extract_schemes(str(s)) yields exactly one scheme, with *)
(* the interface, the name and the options (items and order) of s, for     *)
(* every s with a conventional interface, a name token and string options. *)
C1_RoundTrip ==
    last.op = "extract_schemes" =>
        /\ last.outcome = "ok"
        /\ last.result.schemes = <<last.scheme>>

\* The values for which the round trip does hold: those that are not empty
\* and hold no run of two or more spaces.
CleanOptions(d) ==
    \A i \in 1..Len(d) : d[i][2] # <<>> /\ collapse(d[i][2]) = d[i][2]

RoundTripOfCleanOptions ==
    (last.op = "extract_schemes" /\ CleanOptions(last.scheme.options)) =>
        /\ last.outcome = "ok"
        /\ last.result.schemes = <<last.scheme>>

(* C2. save then find: after a save() that completed without error,        *)
(* find(s.interface, s.name) returns a scheme equal to s in interface,     *)
(* name and options.                                                       *)
C2_SaveThenFind ==
    (last.op = "save" /\ last.outcome = "ok") =>
        LET f == find(content, last.scheme.interface, last.scheme.name) IN
        f.outcome = "ok" /\ f.found /\ f.scheme = last.scheme

C4_Unique ==
    (/\ ~all(initial.text).raised
     /\ Unique(all(initial.text).schemes)
     /\ ~all(content).raised)
        => Unique(all(content).schemes)

(* C5. delete removes exactly one stanza: after s.delete() on a file that  *)
(* holds the header line of s, every other scheme's stanza is as it was:   *)
(* the other schemes read from the file are the same, in the same order,   *)
(* with the same options.                                                  *)
C5_DeleteOnlyOne ==
    (/\ last.op = "delete"
     /\ last.outcome = "ok"
     /\ HasLine(last.before, HeaderLine(last.scheme.interface, last.scheme.name))
     /\ ~all(last.before).raised)
        => /\ ~all(content).raised
           /\ Others(all(content).schemes, last.scheme)
                 = Others(all(last.before).schemes, last.scheme)

C7_UnrelatedKept ==
    Plain(initial.blocks) =>
        IsSubseq(UnrelatedLines(initial.blocks), splitlines(content))

C9_FindNeverRaises ==
    last.op = "find" =>
        /\ last.outcome = "ok"
        /\ LET ss == all(last.before).schemes
               hits == {k \in 1..Len(ss) : SamePair(ss[k], last.scheme)}
           IN  IF hits = {} THEN ~last.result.found
               ELSE /\ last.result.found
                    /\ \E k \in hits : /\ \A h \in hits : k <= h
                                       /\ last.result.scheme = ss[k]

\* What find does whenever the parser does not raise: the first match in
\* file order, or None.
FindFirstMatchWhenParsed ==
    (last.op = "find" /\ ~all(last.before).raised) =>
        /\ last.outcome = "ok"
        /\ LET ss == all(last.before).schemes
               hits == {k \in 1..Len(ss) : SamePair(ss[k], last.scheme)}
           IN  IF hits = {} THEN ~last.result.found
               ELSE /\ last.result.found
                    /\ \E k \in hits : /\ \A h \in hits : k <= h
                                       /\ last.result.scheme = ss[k]

(* C10. Multiplicity: on a file with two stanzas for the same interface    *)
(* and different names, all() yields the two schemes in file order, each   *)
(* with its own options only, and find returns each of them for its name.  *)
TwoStanzas(bs) ==
    /\ Plain(bs)
    /\ Len(SchemesOf(bs)) = 2
    /\ SchemesOf(bs)[1].interface = SchemesOf(bs)[2].interface
    /\ SchemesOf(bs)[1].name # SchemesOf(bs)[2].name

C10_Multiplicity ==
    (TwoStanzas(initial.blocks) /\ OnFirstFile) =>
        /\ last.op = "all" =>
              /\ last.outcome = "ok"
              /\ last.result.schemes = SchemesOf(initial.blocks)
        /\ last.op = "find" =>
              \A k \in 1..2 :
                  SamePair(SchemesOf(initial.blocks)[k], last.scheme) =>
                      /\ last.result.found
                      /\ last.result.scheme = SchemesOf(initial.blocks)[k]

\* find returned the second of the two stanzas, with its own options
C10_Witness ==
    /\ TwoStanzas(initial.blocks)
    /\ OnFirstFile
    /\ last.op = "find"
    /\ SamePair(SchemesOf(initial.blocks)[2], last.scheme)
    /\ last.result.found
    /\ last.result.scheme = SchemesOf(initial.blocks)[2]
    /\ last.result.scheme.options # SchemesOf(initial.blocks)[1].options

----------------------------------------------------------------------------
(* Activation: Scheme.activate and Scheme.deactivate run external          *)
(* commands.  A call in progress is kept in last: its position pc, the     *)
(* external operations issued so far (log), and how it ended.              *)

T_ifdown == <<"/", "s", "b", "i", "n", "/", "i", "f", "d", "o", "w", "n">>
T_ifup == <<"/", "s", "b", "i", "n", "/", "i", "f", "u", "p">>
T_dhclient == <<"/", "s", "b", "i", "n", "/", "d", "h", "c", "l", "i", "e", "n", "t">>
T_o == <<"-", "o">>
T_r == <<"-", "r">>

\* the exit statuses an external command ends with
ExitStatuses == {0, 1, 2}

\* None, and the connection handles a lookup can report for a scheme
None == [kind |-> "None"]
Connections(s) ==
    { [kind |-> "Connection", scheme |-> s, address |-> a] : a \in {"ip1", "ip2"} }

\* subprocess.check_output: CalledProcessError on a non-zero exit status
check_output(status) == IF status = 0 THEN "ok" ELSE "CalledProcessError"

\* Scheme.iface
iface(s) == s.interface \o <<"-">> \o s.name

\* the '-o', 'k=v' pairs of as_args
RECURSIVE OptionArgs(_)
OptionArgs(d) ==
    IF d = <<>> THEN <<>>
    ELSE <<T_o, d[1][1] \o <<"=">> \o d[1][2]>> \o OptionArgs(Tail(d))

\* Scheme.as_args
as_args(s) == <<s.interface \o <<"=">> \o iface(s)>> \o OptionArgs(s.options)

\* Scheme.__repr__: the fields the text is formatted from
repr(s) ==
    [class |-> "Scheme", interface |-> s.interface, name |-> s.name,
     options |-> s.options]

\* no exception message
NoMessage == [format |-> "", arg |-> None]

\* an external operation as the log keeps it
Issued(cmd, argv, status, conn) ==
    [cmd |-> cmd, argv |-> argv, status |-> status, conn |-> conn]

\* a call of activate or deactivate about to start
Starting(op, s) ==
    [op |-> op, scheme |-> s, pc |-> "start", log |-> <<>>,
     outcome |-> "running", result |-> None, message |-> NoMessage]

\* A variant of the first step of activate that ignores the exit status.
IfDownUnchecked ==
    /\ last.op = "activate" /\ last.pc = "start"
    /\ \E status \in ExitStatuses :
          last' = [last EXCEPT
                     !.log = Append(@, Issued("ifdown", <<T_ifdown, last.scheme.interface>>,
                                              status, None)),
                     !.pc = "down"]
    /\ UNCHANGED <<exists, content, initial, nops>>

\* activate, line 172: check_output(['/sbin/ifdown', self.interface])
IfDown ==
    /\ last.op = "activate" /\ last.pc = "start"
    /\ \E status \in ExitStatuses :
          last' = [last EXCEPT
                     !.log = Append(@, Issued("ifdown", <<T_ifdown, last.scheme.interface>>,
                                              status, None)),
                     !.pc = IF check_output(status) = "ok" THEN "down" ELSE "done",
                     !.outcome = IF check_output(status) = "ok" THEN @
                                 ELSE check_output(status)]
    /\ UNCHANGED <<exists, content, initial, nops>>

\* activate, line 173: check_output(['/sbin/ifup'] + self.as_args())
IfUp ==
    /\ last.op = "activate" /\ last.pc = "down"
    /\ \E status \in ExitStatuses :
          last' = [last EXCEPT
                     !.log = Append(@, Issued("ifup", <<T_ifup>> \o as_args(last.scheme),
                                              status, None)),
                     !.pc = IF check_output(status) = "ok" THEN "up" ELSE "done",
                     !.outcome = IF check_output(status) = "ok" THEN @
                                 ELSE check_output(status)]
    /\ UNCHANGED <<exists, content, initial, nops>>

\* A variant of the end of activate that returns whatever the lookup gave.
LookupUnchecked ==
    /\ last.op = "activate" /\ last.pc = "up"
    /\ \E conn \in {None} \cup Connections(last.scheme) :
          last' = [last EXCEPT
                     !.log = Append(@, Issued("current_for_scheme", <<>>, 0, conn)),
                     !.pc = "done",
                     !.outcome = "ok",
                     !.result = conn]
    /\ UNCHANGED <<exists, content, initial, nops>>

\* activate, lines 174-178: Connection.current_for_scheme(self), then the
\* connection is returned or ConnectionError("Failed to connect to %r") raised
Lookup ==
    /\ last.op = "activate" /\ last.pc = "up"
    /\ \E conn \in {None} \cup Connections(last.scheme) :
          last' = [last EXCEPT
                     !.log = Append(@, Issued("current_for_scheme", <<>>, 0, conn)),
                     !.pc = "done",
                     !.outcome = IF conn = None THEN "ConnectionError" ELSE "ok",
                     !.result = IF conn = None THEN None ELSE conn,
                     !.message = IF conn = None
                                 THEN [format |-> "Failed to connect to %r",
                                       arg |-> repr(last.scheme)]
                                 ELSE NoMessage]
    /\ UNCHANGED <<exists, content, initial, nops>>

\* A variant of deactivate that runs the command with check_output.
DeactivateChecked ==
    /\ last.op = "deactivate" /\ last.pc = "start"
    /\ \E status \in ExitStatuses :
          last' = [last EXCEPT
                     !.log = Append(@, Issued("dhclient",
                                              <<T_dhclient, T_r, last.scheme.interface>>,
                                              status, None)),
                     !.pc = "done",
                     !.outcome = check_output(status),
                     !.result = [kind |-> "status", status |-> 0]]
    /\ UNCHANGED <<exists, content, initial, nops>>

\* Scheme.deactivate: subprocess.call(['/sbin/dhclient', '-r', self.interface])
Deactivate ==
    /\ last.op = "deactivate" /\ last.pc = "start"
    /\ \E status \in ExitStatuses :
          last' = [last EXCEPT
                     !.log = Append(@, Issued("dhclient",
                                              <<T_dhclient, T_r, last.scheme.interface>>,
                                              status, None)),
                     !.pc = "done",
                     !.outcome = "ok",
                     !.result = [kind |-> "status", status |-> status]]
    /\ UNCHANGED <<exists, content, initial, nops>>

\* the schemes activate and deactivate are called on
SchemeA12 == Scheme(I_wlan0, N_a, <<<<K_k, V_v>>, <<K_j, V_w>>>>)
ActivateSchemes == { SchemeA1, SchemeB1, SchemeA12, Scheme(T_wlan, N_a_c, <<>>) }

InitActivate ==
    /\ exists = TRUE
    /\ \E text \in { <<>>, str(SchemeA1) } :
          /\ content = text
          /\ initial = [blocks |-> <<>>, text |-> text]
    /\ \E op \in {"activate", "deactivate"}, s \in ActivateSchemes :
          last = Starting(op, s)
    /\ nops = 0

NextActivate == IfDown \/ IfUp \/ Lookup \/ Deactivate

SpecActivate == InitActivate /\ [][NextActivate]_vars


\* the external operations a finished or running call has issued
Log == last.log
ActivateDone == last.op = "activate" /\ last.pc = "done"
ExitedZero(cmd) ==
    \E i \in 1..Len(Log) : Log[i].cmd = cmd /\ Log[i].status = 0
LookedUp(conn) ==
    \E i \in 1..Len(Log) : Log[i].cmd = "current_for_scheme" /\ Log[i].conn = conn

\* C11: activate returns only a connection that the lookup reported for
\* this scheme after ifup exited zero; when ifdown and ifup both exit zero
\* and the lookup reports no connection, activate raises ConnectionError
\* with a message naming the scheme's interface and name; None is never
\* returned as a normal result.
C11_ActivationOutcome ==
    ActivateDone =>
       /\ last.outcome = "ok" =>
             /\ last.result \in Connections(last.scheme)
             /\ last.result # None
             /\ \E i, j \in 1..Len(Log) :
                   /\ i < j
                   /\ Log[i].cmd = "ifup" /\ Log[i].status = 0
                   /\ Log[j].cmd = "current_for_scheme" /\ Log[j].conn = last.result
       /\ (ExitedZero("ifdown") /\ ExitedZero("ifup") /\ LookedUp(None)) =>
             /\ last.outcome = "ConnectionError"
             /\ last.message.arg.interface = last.scheme.interface
             /\ last.message.arg.name = last.scheme.name
       /\ last.outcome \in {"ok", "ConnectionError", "CalledProcessError"}

C11_Witness ==
    /\ ActivateDone
    /\ ExitedZero("ifdown") /\ ExitedZero("ifup") /\ LookedUp(None)
    /\ last.outcome = "ConnectionError"

\* the argv of ifup for scheme s: <interface>=<interface>-<name>, then
\* '-o' and '<key>=<value>' for each option in order
IsUpArgv(argv, s) ==
    /\ Len(argv) = 2 + 2 * Len(s.options)
    /\ argv[1] = T_ifup
    /\ argv[2] = s.interface \o <<"=">> \o s.interface \o <<"-">> \o s.name
    /\ \A k \in 1..Len(s.options) :
          /\ argv[2 * k + 1] = T_o
          /\ argv[2 * k + 2] = s.options[k][1] \o <<"=">> \o s.options[k][2]

\* C12: activate issues ifdown <interface>, then ifup <interface>=<iface>
\* with the -o options, then the lookup, in that order and each at most
\* once; a non-zero exit of ifdown or ifup ends the call with the error and
\* nothing is issued after it.
C12_CommandOrder ==
    last.op = "activate" =>
       /\ Len(Log) <= 3
       /\ \A i \in 1..Len(Log) :
             /\ Log[i].cmd = <<"ifdown", "ifup", "current_for_scheme">>[i]
             /\ Log[i].status # 0 =>
                   /\ i = Len(Log)
                   /\ last.pc = "done"
                   /\ last.outcome = "CalledProcessError"
       /\ Len(Log) >= 1 => Log[1].argv = <<T_ifdown, last.scheme.interface>>
       /\ Len(Log) >= 2 => IsUpArgv(Log[2].argv, last.scheme)
       /\ (last.pc = "done" /\ Len(Log) < 3) => Log[Len(Log)].status # 0

C12_Witness ==
    /\ ActivateDone
    /\ Len(Log) = 2
    /\ Log[2].status # 0
    /\ Len(last.scheme.options) = 2

\* C15: deactivate issues dhclient -r <interface> and nothing else, returns
\* the exit status as it is for every status, raises nothing, and leaves the
\* interfaces file as it was.
C15_DeactivateStatus ==
    last.op = "deactivate" =>
       /\ \A i \in 1..Len(Log) : Log[i].cmd = "dhclient"
       /\ content = initial.text /\ exists
       /\ last.pc = "done" =>
             /\ Len(Log) = 1
             /\ Log[1].argv = <<T_dhclient, T_r, last.scheme.interface>>
             /\ last.outcome = "ok"
             /\ last.result = [kind |-> "status", status |-> Log[1].status]

C15_Witness ==
    /\ last.op = "deactivate" /\ last.pc = "done"
    /\ Log[1].status # 0
    /\ last.result.status # 0

----------------------------------------------------------------------------
(* Scheme.current on a store that for_file bound to its own file.  content *)
(* is the file of the store (cls.interfaces); initial.etc is the text of   *)
(* /etc/network/interfaces, the file of the base class Scheme.             *)

K_essid == <<"w", "i", "r", "e", "l", "e", "s", "s", "-", "e", "s", "s", "i", "d">>

\* None where a text is expected
NoText == <<"None">>

\* dict.get(key, default)
DictGet(d, k, default) ==
    IF \E i \in 1..Len(d) : d[i][1] = k
    THEN d[CHOOSE i \in 1..Len(d) : d[i][1] = k][2]
    ELSE default

\* Scheme.ssid
ssid(s) == DictGet(s.options, K_ssid, DictGet(s.options, K_essid, NoText))

\* the schemes of text whose ssid is scheme_name, as where(...) lists them
WhereSsid(text, scheme_name) ==
    LET match(s) == ssid(s) = scheme_name
        r == all(text)
    IN  IF r.raised
        THEN [kind |-> "raised", list |-> <<>>]
        ELSE [kind |-> "list", list |-> SelectSeq(r.schemes, match)]

\* Scheme.current: iwgetid --raw --scheme, None when it exits non-zero, else
\* Scheme.where(lambda s: s.ssid == scheme_name), on the file of Scheme
Current ==
    /\ last.op = "none"
    /\ \E status \in ExitStatuses, output \in { <<>>, V_v \o <<NL>>, V_w \o <<NL>> } :
          LET scheme_name == strip(output)
              w == WhereSsid(initial.etc, scheme_name)
          IN  last' = [op |-> "current", status |-> status, scheme_name |-> scheme_name,
                       outcome |-> IF check_output(status) = "ok" /\ w.kind = "raised"
                                   THEN "ValueError" ELSE "ok",
                       result |-> IF check_output(status) = "ok" THEN w ELSE None]
    /\ UNCHANGED <<exists, content, initial, nops>>

\* the stanzas of the two files: with wpa-ssid, with wireless-essid, with
\* both, with neither
SsidSchemes ==
    { Scheme(I_wlan0, N_a, <<<<K_ssid, V_v>>>>),
      Scheme(I_wlan0, N_b, <<<<K_essid, V_v>>>>),
      Scheme(I_wlan0, N_a, <<<<K_essid, V_v>>, <<K_ssid, V_w>>>>),
      Scheme(I_wlan0, N_b, <<<<K_k, V_v>>>>) }

\* the files of at most MaxBlocks distinct stanzas
RECURSIVE Stanzas(_)
Stanzas(ss) == IF ss = <<>> THEN <<>> ELSE str(Head(ss)) \o Stanzas(Tail(ss))

SsidFiles ==
    { Stanzas(ss) : ss \in UNION { { q \in [1..n -> SsidSchemes] :
                                       \A i, j \in 1..n : i # j => q[i] # q[j] } :
                                   n \in 0..MaxBlocks } }

InitCurrent ==
    /\ exists = TRUE
    /\ \E text \in SsidFiles, etc \in SsidFiles :
          /\ content = text
          /\ initial = [blocks |-> <<>>, text |-> text, etc |-> etc]
    /\ last = [op |-> "none"]
    /\ nops = 0

NextCurrent == Current

SpecCurrent == InitCurrent /\ [][NextCurrent]_vars

\* C13: current() on a store bound to a file returns None when iwgetid
\* exits non-zero, and otherwise exactly the schemes of that store's file
\* whose ssid equals the reported network identity.
C13_Current ==
    last.op = "current" =>
       IF last.status # 0
       THEN last.result = None
       ELSE /\ last.outcome = "ok"
            /\ last.result = WhereSsid(content, last.scheme_name)

\* What current() does return: the schemes of the base class's file.
CurrentReadsBaseFile ==
    last.op = "current" =>
       IF last.status # 0
       THEN last.result = None
       ELSE last.result = WhereSsid(initial.etc, last.scheme_name)

----------------------------------------------------------------------------
(* configuration(cell, passkey): the options of a scheme for a cell.       *)

T_wpa == <<"w", "p", "a">>
T_wpa2 == <<"w", "p", "a", "2">>
T_wep == <<"w", "e", "p">>
T_wep2 == <<"w", "e", "p", "2">>
T_eap == <<"e", "a", "p">>
K_psk == <<"w", "p", "a", "-", "p", "s", "k">>
K_channel == <<"w", "i", "r", "e", "l", "e", "s", "s", "-", "c", "h", "a", "n", "n", "e", "l">>
K_key == <<"w", "i", "r", "e", "l", "e", "s", "s", "-", "k", "e", "y">>
V_auto == <<"a", "u", "t", "o">>

\* the length of a passkey that is used as it is
PskLen == 64

\* PBKDF2(passkey, ssid, 4096).hexread(32): a text that is a function of
\* passkey and ssid and is no passkey of the model
PBKDF2(passkey, salt) ==
    <<"PBKDF2(">> \o passkey \o <<",">> \o salt \o <<",4096).hexread(32)">>

\* configuration: the outcome and the dict returned
configuration(cell, passkey) ==
    IF ~cell.encrypted
    THEN [outcome |-> "ok",
          result |-> <<<<K_essid, cell.ssid>>, <<K_channel, V_auto>>>>]
    ELSE IF startswith(cell.encryption_type, T_wpa)
    THEN IF passkey = NoText
         THEN [outcome |-> "TypeError", result |-> <<>>]       \* len(None)
         ELSE [outcome |-> "ok",
               result |-> <<<<K_ssid, cell.ssid>>,
                            <<K_psk, IF Len(passkey) # PskLen
                                     THEN PBKDF2(passkey, cell.ssid)
                                     ELSE passkey>>,
                            <<K_channel, V_auto>>>>]
    ELSE IF cell.encryption_type = T_wep
    THEN [outcome |-> "ok",
          result |-> <<<<K_essid, cell.ssid>>, <<K_key, passkey>>>>]
    ELSE [outcome |-> "NotImplementedError", result |-> <<>>]

\* a text of n characters
Text(n) == [i \in 1..n |-> "x"]

\* the cells and passkeys configuration is called with; NoText is the
\* default passkey=None
Cells ==
    [encrypted : BOOLEAN,
     encryption_type : {T_wpa, T_wpa2, T_wep, T_wep2, T_eap},
     ssid : {V_v, V_w}]
Passkeys == {NoText} \cup { Text(n) : n \in {8, PskLen - 1, PskLen, PskLen + 1} }

InitConfiguration ==
    /\ exists = FALSE
    /\ content = <<>>
    /\ initial = [blocks |-> <<>>, text |-> <<>>]
    /\ \E cell \in Cells, passkey \in Passkeys :
          last = [op |-> "cell", cell |-> cell, passkey |-> passkey,
                  outcome |-> "ok", result |-> <<>>]
    /\ nops = 0

\* configuration(cell, passkey)
Configure ==
    /\ last.op = "cell"
    /\ LET r == configuration(last.cell, last.passkey) IN
       last' = [last EXCEPT !.op = "configuration",
                            !.outcome = r.outcome, !.result = r.result]
    /\ UNCHANGED <<exists, content, initial, nops>>

NextConfiguration == Configure

SpecConfiguration == InitConfiguration /\ [][NextConfiguration]_vars

\* the table of the claim: the dict for a cell and a secret, <<>> where the
\* encryption type is not supported
ConfigurationTable(cell, secret) ==
    IF ~cell.encrypted
    THEN <<<<K_essid, cell.ssid>>, <<K_channel, V_auto>>>>
    ELSE IF cell.encryption_type \in {T_wpa, T_wpa2}
    THEN <<<<K_ssid, cell.ssid>>,
           <<K_psk, IF Len(secret) = PskLen /\ secret # NoText THEN secret
                    ELSE PBKDF2(secret, cell.ssid)>>,
           <<K_channel, V_auto>>>>
    ELSE IF cell.encryption_type = T_wep
    THEN <<<<K_essid, cell.ssid>>, <<K_key, secret>>>>
    ELSE <<>>

\* C14: for every cell and secret configuration returns the dict of the
\* table (unencrypted, WPA family, WEP), and fails with the error for an
\* unsupported encryption type (NotImplementedError) for every other type.
C14_Configuration ==
    last.op = "configuration" =>
       IF ConfigurationTable(last.cell, last.passkey) # <<>>
       THEN last.outcome = "ok"
            /\ last.result = ConfigurationTable(last.cell, last.passkey)
       ELSE last.outcome = "NotImplementedError"

\* The table holds whenever a passkey is given.
ConfigurationWithPasskey ==
    (last.op = "configuration" /\ last.passkey # NoText) =>
       IF ConfigurationTable(last.cell, last.passkey) # <<>>
       THEN last.outcome = "ok"
            /\ last.result = ConfigurationTable(last.cell, last.passkey)
       ELSE last.outcome = "NotImplementedError"

----------------------------------------------------------------------------
(* save as an append, in the store specification.                          *)

\* C16: when s.save() succeeds the new content is the previous content, one
\* newline, and str(s); the previous content is a prefix of it; and all()
\* returns the schemes it returned before, unchanged and in the same order,
\* followed by s.
C16_SaveAppends ==
    (last.op = "save" /\ last.outcome = "ok") =>
       /\ content = last.before \o <<NL>> \o str(last.scheme)
       /\ startswith(content, last.before)
       /\ ~all(content).raised
       /\ all(content).schemes = Append(all(last.before).schemes, last.scheme)

\* The text part holds, and the schemes returned before come first after.
SaveAppendsText ==
    (last.op = "save" /\ last.outcome = "ok") =>
       /\ content = last.before \o <<NL>> \o str(last.scheme)
       /\ startswith(content, last.before)
       /\ ~all(content).raised
       /\ Len(all(content).schemes) = Len(all(last.before).schemes) + 1
       /\ SubSeq(all(content).schemes, 1, Len(all(last.before).schemes))
             = all(last.before).schemes

----------------------------------------------------------------------------
(* The parser on files made of single lines: Scheme.all on every file of   *)
(* at most MaxLines lines.                                                 *)

MaxLines == 3

L_header_a == HeaderLine(I_wlan0, N_a)
L_header_b == HeaderLine(I_wlan0, N_b)
L_option_j == <<SP, SP>> \o K_j \o <<SP, SP>> \o V_w
L_tab_option == <<TAB>> \o K_k \o <<SP>> \o V_w
L_word == T_indent \o K_k

LineKinds ==
    { L_header_a, L_header_b, L_wlan0, L_eth0, L_option, L_option_j,
      L_tab_option, L_word, L_comment, <<>> }

InitParser ==
    /\ \E ls \in UNION { [1..n -> LineKinds] : n \in 0..MaxLines } :
          /\ initial = [blocks |-> <<>>, text |-> Join(ls, TRUE)]
          /\ content = Join(ls, TRUE)
    /\ exists = TRUE
    /\ last = Call("none", NoScheme, "ok", <<>>)
    /\ nops = 0

NextParser == All

SpecParser == InitParser /\ [][NextParser]_vars

\* The attribution of option lines, stated on the lines of the file by
\* their positions.  indent is the set of characters a line must start with
\* to continue the run of lines after a header.
IsHeader(line) ==
    /\ scheme_re(line).match
    /\ scheme_re(line).name # <<>>
    /\ scheme_re(line).interface # <<>>

Continues(line, indent) == line # <<>> /\ line[1] \in indent

\* the position after the run of lines that follows the header at h
RunEnd(lines, h, indent) ==
    IF \E j \in (h + 1)..Len(lines) : ~Continues(lines[j], indent)
    THEN CHOOSE j \in (h + 1)..Len(lines) :
            /\ ~Continues(lines[j], indent)
            /\ \A i \in (h + 1)..(j - 1) : Continues(lines[i], indent)
    ELSE Len(lines) + 1

\* the option lines of the header at h: the lines of its run that start
\* with a space
OptionLinesAt(lines, h, indent) ==
    SelectSeq(SubSeq(lines, h + 1, RunEnd(lines, h, indent) - 1),
              LAMBDA line : startswith(line, <<SP>>))

KeyValue(line) == split1(collapse(strip(line)))

RECURSIVE DictOf(_, _)
DictOf(optionLines, d) ==
    IF optionLines = <<>> THEN d
    ELSE DictOf(Tail(optionLines),
                DictSet(d, KeyValue(Head(optionLines))[1], KeyValue(Head(optionLines))[2]))

\* an option line of the header at h cannot be split into key and value
Unsplittable(lines, h, indent) ==
    \E j \in 1..Len(OptionLinesAt(lines, h, indent)) :
       Len(KeyValue(OptionLinesAt(lines, h, indent)[j])) # 2

\* the positions of the headers whose schemes are yielded: those before
\* the first header with an unsplittable option line
YieldedAt(lines, indent) ==
    { h \in 1..Len(lines) :
        /\ IsHeader(lines[h])
        /\ \A g \in 1..h : IsHeader(lines[g]) => ~Unsplittable(lines, g, indent) }

RECURSIVE Attributed(_, _, _)
Attributed(lines, h, indent) ==
    IF h > Len(lines) THEN <<>>
    ELSE (IF h \in YieldedAt(lines, indent)
          THEN <<Scheme(scheme_re(lines[h]).interface, scheme_re(lines[h]).name,
                        DictOf(OptionLinesAt(lines, h, indent), <<>>))>>
          ELSE <<>>) \o Attributed(lines, h + 1, indent)

\* the claim as stated: a run of option lines ends at the first line that
\* does not start with whitespace
C17_AsStated ==
    last.op = "all" =>
       last.result.schemes = Attributed(splitlines(content), 1, {SP, TAB})

\* C17: each yielded scheme's options are the lines that start with a space
\* and follow its header with no other line in between, in order, each split
\* at the first space after stripping and collapsing runs of whitespace; the
\* run ends at the first line that does not start with a space; indented
\* lines after a skipped header belong to no scheme; schemes come in file
\* order, up to the first stanza with an option line of one word.
C17_OptionAttribution ==
    last.op = "all" =>
       /\ last.result.schemes = Attributed(splitlines(content), 1, {SP})
       /\ last.result.raised =
             \E h \in 1..Len(splitlines(content)) :
                /\ IsHeader(splitlines(content)[h])
                /\ Unsplittable(splitlines(content), h, {SP})

C17_Witness ==
    /\ last.op = "all"
    /\ splitlines(content) = <<L_header_a, L_tab_option, L_option>>
    /\ last.result.schemes = <<Scheme(I_wlan0, N_a, <<>>)>>

----------------------------------------------------------------------------
(* Two processes calling save and delete on the same file with no lock.    *)
(* save is two steps, the assert on find and the append; delete is two     *)
(* steps, the loop over the lines read and the write of what it kept.      *)
(* last.procs holds each process's call, its position pc, what it read     *)
(* (buf) and its outcome.                                                  *)

Procs == {1, 2}

\* A variant of the write of save that rewrites the file from what the
\* process read when it checked.
save_rewrite(current, snapshot, s) == snapshot \o <<NL>> \o str(s)

\* save, lines 133-135: open(..., 'a'), "\n" and str(self) written at the
\* end of the file as it is then; snapshot is what the assert had read
save_write(current, snapshot, s) == current \o <<NL>> \o str(s)

\* delete, lines 141-150: the content kept from the lines read
delete_read(text, s) ==
    DeleteLoop(readlines(text), HeaderLine(s.interface, s.name), FALSE, <<>>)

Proc(p) == last.procs[p]

\* process p moves to position pc with buf and outcome
Step(p, pc, buf, outcome) ==
    last' = [last EXCEPT !.procs[p] = [@ EXCEPT !.pc = pc, !.buf = buf,
                                                !.outcome = outcome]]

\* save, line 131: assert not self.find(self.interface, self.name)
SaveCheck(p) ==
    /\ Proc(p).call = "save" /\ Proc(p).pc = "start"
    /\ LET f == find(content, Proc(p).scheme.interface, Proc(p).scheme.name) IN
       IF f.outcome # "ok" THEN Step(p, "done", <<>>, f.outcome)
       ELSE IF f.found THEN Step(p, "done", <<>>, "AssertionError")
       ELSE Step(p, "checked", content, "running")
    /\ UNCHANGED <<exists, content, initial, nops>>

\* save, lines 133-135
SaveWrite(p) ==
    /\ Proc(p).call = "save" /\ Proc(p).pc = "checked"
    /\ content' = save_write(content, Proc(p).buf, Proc(p).scheme)
    /\ Step(p, "done", <<>>, "ok")
    /\ UNCHANGED <<exists, initial, nops>>

\* delete, lines 141-150
DeleteRead(p) ==
    /\ Proc(p).call = "delete" /\ Proc(p).pc = "start"
    /\ Step(p, "read", delete_read(content, Proc(p).scheme), "running")
    /\ UNCHANGED <<exists, content, initial, nops>>

\* delete, lines 152-153: open(..., 'w') and f.write(content)
DeleteWrite(p) ==
    /\ Proc(p).call = "delete" /\ Proc(p).pc = "read"
    /\ content' = Proc(p).buf
    /\ Step(p, "done", <<>>, "ok")
    /\ UNCHANGED <<exists, initial, nops>>

\* the calls of the two processes and the files they start on
ConcurrentCalls ==
    [call : {"save", "delete"}, scheme : {SchemeA2, SchemeB1},
     pc : {"start"}, buf : {<<>>}, outcome : {"running"}]
ConcurrentFiles ==
    { <<>>, <<NL>> \o str(SchemeA1), <<NL>> \o str(SchemeA1) \o <<NL>> \o str(SchemeB1) }

InitConcurrent ==
    /\ exists = TRUE
    /\ \E text \in ConcurrentFiles :
          /\ content = text
          /\ initial = [blocks |-> <<>>, text |-> text]
    /\ \E procs \in [Procs -> ConcurrentCalls] :
          last = [op |-> "concurrent", procs |-> procs]
    /\ nops = 0

NextConcurrent ==
    \E p \in Procs : SaveCheck(p) \/ SaveWrite(p) \/ DeleteRead(p) \/ DeleteWrite(p)

SpecConcurrent == InitConcurrent /\ [][NextConcurrent]_vars

\* the file after a call made alone on text
Alone(c, text) ==
    IF c.call = "delete" THEN delete_read(text, c.scheme)
    ELSE IF find(text, c.scheme.interface, c.scheme.name).outcome = "ok"
            /\ ~find(text, c.scheme.interface, c.scheme.name).found
    THEN text \o <<NL>> \o str(c.scheme)
    ELSE text

\* the final files of the two serial orders of the calls
SerialOutcomes ==
    { Alone(Proc(2), Alone(Proc(1), initial.text)),
      Alone(Proc(1), Alone(Proc(2), initial.text)) }

AllDone == last.op = "concurrent" /\ \A p \in Procs : Proc(p).pc = "done"

Stanzas_of(text, s) == SelectSeq(all(text).schemes, LAMBDA t : SamePair(t, s))

\* two saves of the same (interface, name) both succeeded and the file
\* holds two stanzas for it
DuplicateStanzas ==
    /\ \A p \in Procs : Proc(p).call = "save" /\ Proc(p).outcome = "ok"
    /\ SamePair(Proc(1).scheme, Proc(2).scheme)
    /\ Len(Stanzas_of(content, Proc(1).scheme)) = 2

\* a save succeeded, the other call was a delete, and the file holds no
\* stanza for the saved scheme
SavedStanzaMissing ==
    \E p, q \in Procs :
       /\ Proc(p).call = "save" /\ Proc(p).outcome = "ok"
       /\ Proc(q).call = "delete"
       /\ Stanzas_of(content, Proc(p).scheme) = <<>>

\* two deletes ran and the stanza one of them removed is in the file
DeletedStanzaBack ==
    \E p, q \in Procs :
       /\ Proc(p).call = "delete" /\ Proc(q).call = "delete"
       /\ ~SamePair(Proc(p).scheme, Proc(q).scheme)
       /\ Stanzas_of(content, Proc(p).scheme) # <<>>

\* C18: two processes whose check, read and write steps interleave can
\* reach a final file that no serial order of the two calls produces, and
\* every such file is of one of these kinds: two stanzas with the same
\* (interface, name) after two saves, a successfully saved stanza missing
\* after the write of a concurrent delete, or (between two deletes) a
\* deleted stanza written back.
C18_Interleavings ==
    AllDone =>
       \/ content \in SerialOutcomes
       \/ DuplicateStanzas
       \/ SavedStanzaMissing
       \/ DeletedStanzaBack

C18_Witness ==
    /\ AllDone
    /\ content \notin SerialOutcomes
    /\ SavedStanzaMissing

\* the other kind of final file: two stanzas after two saves
DuplicateAfterTwoSaves ==
    /\ AllDone
    /\ content \notin SerialOutcomes
    /\ DuplicateStanzas

----------------------------------------------------------------------------
(* delete followed by find and save, in the store specification.           *)

\* C19: for any file content and any scheme s that find returns on it,
\* after s.delete() completes find(s.interface, s.name) returns None, so
\* that a following save of a scheme with the same (interface, name)
\* succeeds.
C19_DeleteThenFind ==
    (/\ last.op = "delete" /\ last.outcome = "ok"
     /\ find(last.before, last.scheme.interface, last.scheme.name).found) =>
       /\ find(content, last.scheme.interface, last.scheme.name).outcome = "ok"
       /\ ~find(content, last.scheme.interface, last.scheme.name).found

----------------------------------------------------------------------------
(* The separation of stanzas in a file that only save and delete wrote.    *)

\* the run started on an empty or missing file
Fresh == initial.text = <<>>

\* every stanza of the text has a blank line before its header and a blank
\* line or the end of the text after its last option line
Separated(text) ==
    LET lines == splitlines(text) IN
    \A h \in 1..Len(lines) :
       IsHeader(lines[h]) =>
          /\ h > 1 /\ lines[h - 1] = <<>>
          /\ RunEnd(lines, h, {SP}) <= Len(lines) =>
                lines[RunEnd(lines, h, {SP})] = <<>>

\* Every file that save and delete made from nothing is separated.
StanzasSeparated == Fresh => Separated(content)

\* C20: starting from an empty or missing file, after any sequence of save
\* and delete calls every stanza is preceded by a blank line and followed by
\* a blank line or the end of the file; all() returns exactly the schemes
\* saved and not since deleted (a successful save adds its scheme, a delete
\* removes the schemes of its name, nothing else changes); and delete
\* removes no line of another scheme.
C20_Separation ==
    Fresh =>
       /\ Separated(content)
       /\ ~all(content).raised
       /\ (last.op = "save" /\ last.outcome = "ok") =>
             all(content).schemes = Append(all(last.before).schemes, last.scheme)
       /\ (last.op = "save" /\ last.outcome # "ok") =>
             all(content).schemes = all(last.before).schemes
       /\ (last.op = "delete") =>
             all(content).schemes = Others(all(last.before).schemes, last.scheme)

\* The same holds as long as no name with a hyphen was saved.
SeparationOfPlainNames ==
    (Fresh /\ ~HasLine(content, HeaderLine(I_wlan0, N_a_c))) =>
       /\ Separated(content)
       /\ ~all(content).raised
       /\ (last.op = "save" /\ last.outcome = "ok") =>
             all(content).schemes = Append(all(last.before).schemes, last.scheme)
       /\ (last.op = "save" /\ last.outcome # "ok") =>
             all(content).schemes = all(last.before).schemes
       /\ (last.op = "delete") =>
             all(content).schemes = Others(all(last.before).schemes, last.scheme)

====
